---- MODULE Spec2Model ----
(***************************************************************************)
(* A model of torch_igt.MomentumIGT (src/torch_igt/igt.py): the optimizer  *)
(* state (parameter groups, per-parameter buffers, exposed values p.data,  *)
(* caller-owned gradients p.grad) and its three operations step(), train() *)
(* and eval().  Tensors are one-element tensors; their values are exact    *)
(* rationals <<numerator, denominator>> in lowest terms, so every add_,    *)
(* mul_ and copy_ of the source is computed, not abstracted.  A Python     *)
(* KeyError raised in the middle of a call leaves the writes made before   *)
(* it in place; the model keeps them and records the error in `raised`.    *)
(***************************************************************************)
EXTENDS Integers, Sequences, FiniteSets, TLC

\* ------------------------------------------------------------------ bounds
\* step() calls explored per behaviour
MaxSteps == 3

\* ------------------------------------------------- tensor arithmetic (exact)
Abs(x) == IF x < 0 THEN -x ELSE x

RECURSIVE GCD(_, _)
GCD(a, b) == IF b = 0 THEN a ELSE GCD(b, a % b)

\* a rational in lowest terms with a positive denominator
Norm(n, d) ==
    LET g == GCD(Abs(n), Abs(d))
        s == IF d < 0 THEN -1 ELSE 1
    IN  <<(s * n) \div g, (s * d) \div g>>

R(n) == <<n, 1>>
Zero == <<0, 1>>
One == <<1, 1>>

\* Python's None, and a key missing from a state dict
None == <<0, 0>>

\* sums and products cancel common factors before they multiply, so that the
\* intermediate integers stay as small as the results
RAdd(x, y) ==
    LET g == GCD(x[2], y[2])
    IN  Norm(x[1] * (y[2] \div g) + y[1] * (x[2] \div g), (x[2] \div g) * y[2])
RMul(x, y) ==
    LET g1 == GCD(Abs(x[1]), y[2])
        g2 == GCD(Abs(y[1]), x[2])
    IN  Norm((x[1] \div g1) * (y[1] \div g2), (x[2] \div g2) * (y[2] \div g1))
RNeg(x) == <<-x[1], x[2]>>
RSub(x, y) == RAdd(x, RNeg(y))
RDiv(x, y) == RMul(x, IF y[1] < 0 THEN <<-y[2], -y[1]>> ELSE <<y[2], y[1]>>)

\* t.add_(alpha, other): t + alpha * other
AddScaled(t, alpha, other) == RAdd(t, RMul(alpha, other))

\* ------------------------------------------------------------ the optimizer
\* the parameters handed to the constructor, in two groups
Params == {1, 2, 3}
Groups == {1, 2}
GroupParams == <<<<1, 2>>, <<3>>>>
GroupOf(p) == CHOOSE g \in Groups : \E i \in 1..Len(GroupParams[g]) : GroupParams[g][i] = p

\* the values the parameters hold when the optimizer is constructed
InitData == <<R(1), R(-1), R(2)>>

\* the hyper-parameter settings explored (all pass __init__'s validation)
Config(lr, momentum, dampening, weight_decay, nesterov, delta) ==
    [lr |-> lr, momentum |-> momentum, dampening |-> dampening,
     weight_decay |-> weight_decay, nesterov |-> nesterov, delta |-> delta]

Configs ==
    { Config(<<1, 10>>, Zero, Zero, Zero, FALSE, One),
      Config(<<1, 10>>, Zero, Zero, <<1, 2>>, FALSE, One),
      Config(<<1, 10>>, <<1, 2>>, Zero, Zero, FALSE, One),
      Config(<<1, 10>>, <<1, 2>>, Zero, Zero, TRUE, One),
      Config(<<1, 2>>, <<1, 2>>, <<1, 2>>, <<1, 2>>, FALSE, R(2)) }

\* settings __init__ is also called with: each fails one of its checks
InvalidConfigs ==
    { Config(<<1, 10>>, Zero, Zero, <<-1, 2>>, FALSE, One),
      Config(<<1, 10>>, Zero, Zero, Zero, FALSE, Zero),
      Config(<<1, 10>>, Zero, Zero, Zero, FALSE, R(-1)),
      Config(<<1, 10>>, Zero, Zero, Zero, TRUE, One),
      Config(<<1, 10>>, <<-1, 2>>, Zero, Zero, TRUE, One),
      Config(<<1, 10>>, <<1, 2>>, <<1, 2>>, Zero, TRUE, One) }

AllConfigs == Configs \cup InvalidConfigs

\* the validation without the check of weight_decay
InvalidNoDecayCheck(c) ==
    \/ c.delta[1] <= 0
    \/ (c.nesterov /\ (c.momentum[1] <= 0 \/ c.dampening # Zero))

\* __init__'s validation: TRUE when the constructor raises ValueError
Invalid(c) ==
    \/ c.weight_decay[1] < 0
    \/ c.delta[1] <= 0
    \/ (c.nesterov /\ (c.momentum[1] <= 0 \/ c.dampening # Zero))

VARIABLES
    defaults,       \* the hyper-parameters given to __init__ (every group's, once built)
    num_steps,      \* group['num_steps']
    transported,    \* group['transported']
    params,         \* per parameter: data, grad and the state dict's buffers
    call,           \* the operation called last
    raised,         \* whether that call raised KeyError
    processed,      \* the parameters the last call wrote (their buffers or p.data)
    step_calls,     \* how many times step() was called
    loss,           \* what the last call returned (None unless step() returned a loss)
    closure_calls   \* how many times the last call invoked its closure

vars == <<defaults, num_steps, transported, params, call, raised, processed, step_calls,
          loss, closure_calls>>

Init ==
    /\ defaults \in {c \in Configs : ~Invalid(c)}
    /\ num_steps = [g \in Groups |-> 0]
    /\ transported = [g \in Groups |-> TRUE]
    /\ params = [p \in Params |->
                    [data |-> InitData[p], grad |-> None, igt_velocity |-> None,
                     true_params |-> None, momentum_velocity |-> None]]
    /\ call = "init"
    /\ raised = FALSE
    /\ processed = {}
    /\ step_calls = 0
    /\ loss = None
    /\ closure_calls = 0

\* the state before the optimizer is constructed: the parameters exist, no
\* group does
InitUnconstructed ==
    /\ defaults = <<>>
    /\ num_steps = <<>>
    /\ transported = <<>>
    /\ params = [p \in Params |->
                    [data |-> InitData[p], grad |-> None, igt_velocity |-> None,
                     true_params |-> None, momentum_velocity |-> None]]
    /\ call = "none"
    /\ raised = FALSE
    /\ processed = {}
    /\ step_calls = 0
    /\ loss = None
    /\ closure_calls = 0

\* lines 46-70: the checks raise before line 70 registers the groups with
\* their counter and flag
Construct ==
    /\ call = "none"
    /\ \E c \in AllConfigs :
           /\ defaults' = c
           /\ IF Invalid(c)
              THEN /\ raised' = TRUE
                   /\ UNCHANGED <<num_steps, transported>>
              ELSE /\ raised' = FALSE
                   /\ num_steps' = [g \in Groups |-> 0]
                   /\ transported' = [g \in Groups |-> TRUE]
    /\ call' = "init"
    /\ UNCHANGED <<params, processed, step_calls, loss, closure_calls>>

\* an optimizer object exists: its groups are registered
Constructed == DOMAIN num_steps = Groups

\* ------------------------------------------------------------------- step()
Gamma(n, delta) == RDiv(R(n), RAdd(R(n), delta))
Transport(n, delta) == RDiv(Gamma(n, delta), RSub(One, Gamma(n, delta)))
\* FutureTransport taken from the current step count
FutureTransportStale(n, delta) == Transport(n, delta)

FutureTransport(n, delta) == Transport(n + 1, delta)

\* WeightDecay with the decay taken from the stored true parameters
WeightDecayOnTrueParams(c, ps) ==
    IF c.weight_decay # Zero
    THEN AddScaled(ps.grad, c.weight_decay,
                   IF ps.true_params = None THEN ps.data ELSE ps.true_params)
    ELSE ps.grad

\* lines 106-108: the gradient buffer after weight decay (written in place)
WeightDecay(c, ps) ==
    IF c.weight_decay # Zero
    THEN AddScaled(ps.grad, c.weight_decay, ps.data)
    ELSE ps.grad

\* InitBuffers with true_params left at zero instead of cloned from p.data
InitBuffersZeroTrue(c, ps) ==
    LET igt1 == RAdd(Zero, ps.grad)
    IN  [ps EXCEPT !.igt_velocity = igt1,
                   !.true_params = Zero,
                   !.momentum_velocity = IF c.momentum # Zero THEN igt1 ELSE @]

\* lines 111-126: the first step creates the missing buffers and accumulates
InitBuffers(c, ps) ==
    LET igt0 == IF ps.igt_velocity = None THEN Zero ELSE ps.igt_velocity
        tp0 == IF ps.true_params = None THEN ps.data ELSE ps.true_params
        mv0 == IF c.momentum # Zero /\ ps.momentum_velocity = None
               THEN Zero ELSE ps.momentum_velocity
        igt1 == RAdd(igt0, ps.grad)
    IN  [ps EXCEPT !.igt_velocity = igt1,
                   !.true_params = tp0,
                   !.momentum_velocity = IF c.momentum # Zero THEN RAdd(mv0, igt1) ELSE mv0]

\* lines 130-140: the IGT update of existing buffers; err when a buffer is missing
IGTUpdate(c, n, ps) ==
    IF ps.igt_velocity = None \/ ps.true_params = None
    THEN [ps |-> ps, err |-> TRUE]
    ELSE LET gamma == Gamma(n, c.delta)
             igt1 == AddScaled(RMul(ps.igt_velocity, gamma), RSub(One, gamma), ps.grad)
             ps1 == [ps EXCEPT !.igt_velocity = igt1]
         IN  IF c.momentum = Zero THEN [ps |-> ps1, err |-> FALSE]
             ELSE IF ps1.momentum_velocity = None THEN [ps |-> ps1, err |-> TRUE]
             ELSE [ps |-> [ps1 EXCEPT !.momentum_velocity =
                              AddScaled(RMul(ps1.momentum_velocity, c.momentum),
                                        RSub(One, c.dampening), igt1)],
                   err |-> FALSE]

\* Direction with the Nesterov branch taking heavyball's direction
DirectionHeavyballOnly(c, ps) ==
    IF c.momentum = Zero THEN ps.igt_velocity
    ELSE ps.momentum_velocity

\* the direction both true_params and the exposed value move along:
\* igt_velocity (143-149), igt_velocity + momentum * momentum_velocity
\* (152-160) or momentum_velocity (161-166)
Direction(c, ps) ==
    IF c.momentum = Zero THEN ps.igt_velocity
    ELSE IF c.nesterov THEN AddScaled(ps.igt_velocity, c.momentum, ps.momentum_velocity)
    ELSE ps.momentum_velocity

\* UpdateParams with p.data projected from the true_params of before the advance
UpdateParamsFromOld(c, n, ps) ==
    LET tp == AddScaled(ps.true_params, RNeg(c.lr), Direction(c, ps))
    IN  [ps EXCEPT !.true_params = tp,
                   !.data = AddScaled(ps.true_params,
                                      RNeg(RMul(c.lr, FutureTransport(n, c.delta))),
                                      Direction(c, ps))]

\* UpdateParams with the advance taken from the exposed value p.data
UpdateParamsOnExposed(c, n, ps) ==
    LET tp == AddScaled(ps.data, RNeg(c.lr), Direction(c, ps))
    IN  [ps EXCEPT !.true_params = tp,
                   !.data = AddScaled(tp, RNeg(RMul(c.lr, FutureTransport(n, c.delta))),
                                      Direction(c, ps))]

\* lines 142-166: advance true_params, then rewrite p.data in transported form
UpdateParams(c, n, ps) ==
    LET tp == AddScaled(ps.true_params, RNeg(c.lr), Direction(c, ps))
    IN  [ps EXCEPT !.true_params = tp,
                   !.data = AddScaled(tp, RNeg(RMul(c.lr, FutureTransport(n, c.delta))),
                                      Direction(c, ps))]

\* lines 98-166: the loop body for one parameter
StepParam(c, n, ps) ==
    IF ps.grad = None THEN [ps |-> ps, err |-> FALSE, done |-> FALSE]
    ELSE LET ps1 == [ps EXCEPT !.grad = WeightDecay(c, ps)]
             upd == IF n = 0 THEN [ps |-> InitBuffers(c, ps1), err |-> FALSE]
                    ELSE IGTUpdate(c, n, ps1)
         IN  IF upd.err THEN [ps |-> upd.ps, err |-> TRUE, done |-> FALSE]
             ELSE [ps |-> UpdateParams(c, n, upd.ps), err |-> FALSE, done |-> TRUE]

\* lines 98-166: the parameters of one group from position i on, in order,
\* stopping at the first KeyError
RECURSIVE StepGroupFrom(_, _, _, _, _)
StepGroupFrom(c, n, g, i, st) ==
    IF i > Len(GroupParams[g]) THEN st
    ELSE LET p == GroupParams[g][i]
             After(r) ==
                 LET st1 == [st EXCEPT !.params[p] = r.ps,
                                       !.processed = IF r.done THEN @ \cup {p} ELSE @,
                                       !.raised = r.err]
                 IN  IF r.err THEN st1 ELSE StepGroupFrom(c, n, g, i + 1, st1)
         IN  After(StepParam(c, n, st.params[p]))

\* lines 85-168: the groups from g on; num_steps advances after a group's loop
RECURSIVE StepFrom(_, _, _)
StepFrom(c, g, st) ==
    IF g \notin Groups THEN st
    ELSE LET After(st1) ==
                 IF st1.raised THEN st1
                 ELSE StepFrom(c, g + 1, [st1 EXCEPT !.num_steps[g] = st.num_steps[g] + 1])
         IN  After(StepGroupFrom(c, st.num_steps[g], g, 1, st))

StepResult(c, ns, ps) ==
    StepFrom(c, 1, [params |-> ps, num_steps |-> ns, processed |-> {}, raised |-> FALSE])

\* step() that also sets the flag the exposed value it writes corresponds to
StepSetsFlag ==
    /\ Constructed
    /\ step_calls < MaxSteps
    /\ \E r \in {StepResult(defaults, num_steps, params)} :
           /\ params' = r.params
           /\ num_steps' = r.num_steps
           /\ processed' = r.processed
           /\ raised' = r.raised
    /\ call' = "step"
    /\ step_calls' = step_calls + 1
    /\ loss' = None
    /\ closure_calls' = 0
    /\ transported' = [g \in Groups |-> TRUE]
    /\ UNCHANGED defaults
Step ==
    /\ Constructed
    /\ step_calls < MaxSteps
    /\ \E r \in {StepResult(defaults, num_steps, params)} :
           /\ params' = r.params
           /\ num_steps' = r.num_steps
           /\ processed' = r.processed
           /\ raised' = r.raised
    /\ call' = "step"
    /\ step_calls' = step_calls + 1
    /\ loss' = None
    /\ closure_calls' = 0
    /\ UNCHANGED <<defaults, transported>>

\* ------------------------------------------------- the caller's gradients
\* the gradient the loss gives each parameter, when it gives one
LossGrad == <<R(2), R(1), R(-1)>>
GradValues(p) == {None, LossGrad[p]}

\* the training loop (lines 28-29) leaves a fresh gradient, or none, on
\* every parameter before it calls step()
Backward ==
    /\ Constructed
    /\ step_calls < MaxSteps
    /\ call # "backward"
    /\ \E gr \in [Params -> UNION {GradValues(p) : p \in Params}] :
          /\ \A p \in Params : gr[p] \in GradValues(p)
          /\ \E p \in Params : gr[p] # params[p].grad
          /\ params' = [p \in Params |-> [params[p] EXCEPT !.grad = gr[p]]]
    /\ call' = "backward"
    /\ raised' = FALSE
    /\ processed' = {}
    /\ loss' = None
    /\ closure_calls' = 0
    /\ UNCHANGED <<defaults, num_steps, transported, step_calls>>

\* ------------------------------------------------------ step(closure)
\* the closure a caller passes (lines 82-83): it evaluates the loss at the
\* current p.data, leaves the loss's gradient on every parameter and returns
\* the loss
RECURSIVE SumData(_, _)
SumData(ps, S) ==
    IF S = {} THEN Zero
    ELSE LET p == CHOOSE q \in S : TRUE
         IN  RAdd(ps[p].data, SumData(ps, S \ {p}))

ClosureLoss(ps) == SumData(ps, Params)
ClosureGrads(ps) == [p \in Params |-> [ps[p] EXCEPT !.grad = LossGrad[p]]]

\* step(closure) with the closure invoked after the update loop instead of first
StepClosureLate ==
    /\ Constructed
    /\ step_calls < MaxSteps
    /\ \E r \in {StepResult(defaults, num_steps, params)} :
           /\ params' = ClosureGrads(r.params)
           /\ num_steps' = r.num_steps
           /\ processed' = r.processed
           /\ raised' = r.raised
           /\ loss' = IF r.raised THEN None ELSE ClosureLoss(r.params)
    /\ closure_calls' = 1
    /\ call' = "step_closure"
    /\ step_calls' = step_calls + 1
    /\ UNCHANGED <<defaults, transported>>

\* lines 79-169 with a closure: the closure runs once, first; the loss is
\* returned at line 169, which a KeyError raised in the loop never reaches
StepClosure ==
    /\ Constructed
    /\ step_calls < MaxSteps
    /\ \E r \in {StepResult(defaults, num_steps, ClosureGrads(params))} :
           /\ params' = r.params
           /\ num_steps' = r.num_steps
           /\ processed' = r.processed
           /\ raised' = r.raised
           /\ loss' = IF r.raised THEN None ELSE ClosureLoss(params)
    /\ closure_calls' = 1
    /\ call' = "step_closure"
    /\ step_calls' = step_calls + 1
    /\ UNCHANGED <<defaults, transported>>

\* ------------------------------------------------------------------ train()
\* TrainParam with the offset added to p.data as it is (no copy_ of true_params)
TrainParamNoCopy(c, n, ps) ==
    IF ps.igt_velocity = None \/ ps.true_params = None
    THEN [ps |-> ps, err |-> TRUE]
    ELSE IF c.momentum # Zero /\ ps.momentum_velocity = None
    THEN [ps |-> ps, err |-> TRUE]
    ELSE [ps |-> [ps EXCEPT !.data =
                     AddScaled(ps.data,
                               RNeg(RMul(c.lr, Transport(n, c.delta))),
                               Direction(c, ps))],
          err |-> FALSE]

\* lines 191-204: p.data becomes true_params moved by the current transport;
\* err when a buffer the branch reads is missing from the state dict
TrainParam(c, n, ps) ==
    IF ps.igt_velocity = None \/ ps.true_params = None
    THEN [ps |-> ps, err |-> TRUE]
    ELSE IF c.momentum # Zero /\ ps.momentum_velocity = None
    THEN [ps |-> [ps EXCEPT !.data = ps.true_params], err |-> TRUE]
    ELSE [ps |-> [ps EXCEPT !.data =
                     AddScaled(ps.true_params,
                               RNeg(RMul(c.lr, Transport(n, c.delta))),
                               Direction(c, ps))],
          err |-> FALSE]

\* lines 189-204: the parameters of one group from position i on
RECURSIVE TrainGroupFrom(_, _, _, _, _)
TrainGroupFrom(c, n, g, i, st) ==
    IF i > Len(GroupParams[g]) THEN st
    ELSE LET p == GroupParams[g][i]
             r == TrainParam(c, n, st.params[p])
             st1 == [st EXCEPT !.params[p] = r.ps,
                               !.processed = IF r.err THEN @ ELSE @ \cup {p},
                               !.raised = r.err]
         IN  IF r.err THEN st1 ELSE TrainGroupFrom(c, n, g, i + 1, st1)

\* lines 177-205: one group; the flag is set after the group's loop
TrainGroup(c, g, st) ==
    IF ~st.transported[g] /\ st.num_steps[g] > 0
    THEN LET st1 == TrainGroupFrom(c, st.num_steps[g], g, 1, st)
         IN  IF st1.raised THEN st1 ELSE [st1 EXCEPT !.transported[g] = TRUE]
    ELSE st

RECURSIVE TrainFrom(_, _, _)
TrainFrom(c, g, st) ==
    IF g \notin Groups THEN st
    ELSE LET st1 == TrainGroup(c, g, st)
         IN  IF st1.raised THEN st1 ELSE TrainFrom(c, g + 1, st1)

TrainResult(c, ns, tr, ps) ==
    TrainFrom(c, 1, [params |-> ps, num_steps |-> ns, transported |-> tr,
                     processed |-> {}, raised |-> FALSE])

Train ==
    /\ Constructed
    /\ \E r \in {TrainResult(defaults, num_steps, transported, params)} :
           /\ params' = r.params
           /\ num_steps' = r.num_steps
           /\ transported' = r.transported
           /\ processed' = r.processed
           /\ raised' = r.raised
    /\ call' = "train"
    /\ loss' = None
    /\ closure_calls' = 0
    /\ UNCHANGED <<defaults, step_calls>>

\* ------------------------------------------------------------------- eval()
\* EvalParam with the copy made in the wrong direction
EvalParamCopyReversed(ps) ==
    IF ps.true_params = None THEN [ps |-> ps, err |-> TRUE]
    ELSE [ps |-> [ps EXCEPT !.true_params = ps.data], err |-> FALSE]

\* line 212: p.data.copy_(self.state[p]['true_params'])
EvalParam(ps) ==
    IF ps.true_params = None THEN [ps |-> ps, err |-> TRUE]
    ELSE [ps |-> [ps EXCEPT !.data = ps.true_params], err |-> FALSE]

\* lines 210-212: the parameters of one group from position i on
RECURSIVE EvalGroupFrom(_, _, _)
EvalGroupFrom(g, i, st) ==
    IF i > Len(GroupParams[g]) THEN st
    ELSE LET p == GroupParams[g][i]
             r == EvalParam(st.params[p])
             st1 == [st EXCEPT !.params[p] = r.ps,
                               !.processed = IF r.err THEN @ ELSE @ \cup {p},
                               !.raised = r.err]
         IN  IF r.err THEN st1 ELSE EvalGroupFrom(g, i + 1, st1)

\* EvalGroup written as a swap: no guard, and the flag is flipped
EvalGroupFlip(g, st) ==
    LET st1 == EvalGroupFrom(g, 1, st)
    IN  IF st1.raised THEN st1 ELSE [st1 EXCEPT !.transported[g] = ~st.transported[g]]

\* EvalGroup with the flag cleared before the loop, so also when it raises
EvalGroupFlagFirst(g, st) ==
    IF st.transported[g]
    THEN EvalGroupFrom(g, 1, [st EXCEPT !.transported[g] = FALSE])
    ELSE st

\* lines 209-213: one group; the flag is cleared after the group's loop
EvalGroup(g, st) ==
    IF st.transported[g]
    THEN LET st1 == EvalGroupFrom(g, 1, st)
         IN  IF st1.raised THEN st1 ELSE [st1 EXCEPT !.transported[g] = FALSE]
    ELSE st

RECURSIVE EvalFrom(_, _)
EvalFrom(g, st) ==
    IF g \notin Groups THEN st
    ELSE LET st1 == EvalGroup(g, st)
         IN  IF st1.raised THEN st1 ELSE EvalFrom(g + 1, st1)

EvalResult(ns, tr, ps) ==
    EvalFrom(1, [params |-> ps, num_steps |-> ns, transported |-> tr,
                 processed |-> {}, raised |-> FALSE])

Eval ==
    /\ Constructed
    /\ \E r \in {EvalResult(num_steps, transported, params)} :
           /\ params' = r.params
           /\ num_steps' = r.num_steps
           /\ transported' = r.transported
           /\ processed' = r.processed
           /\ raised' = r.raised
    /\ call' = "eval"
    /\ loss' = None
    /\ closure_calls' = 0
    /\ UNCHANGED <<defaults, step_calls>>

Next == Step \/ StepClosure \/ Backward \/ Train \/ Eval

Spec == Init /\ [][Next]_vars

\* the optimizer's life from before its construction
NextConstruct == Construct \/ Next
SpecConstruct == InitUnconstructed /\ [][NextConstruct]_vars

\* ------------------------------------------------------------------ claims
InGroup(g) == {GroupParams[g][i] : i \in 1..Len(GroupParams[g])}
HasState(ps) == ps.igt_velocity # None /\ ps.true_params # None
Buffers(ps) == <<ps.igt_velocity, ps.momentum_velocity, ps.true_params>>

\* the true value of a parameter: its true_params buffer, or the value it
\* holds while no step has yet given it one
TrueValue(ps) == IF ps.true_params = None THEN ps.data ELSE ps.true_params

\* C1: in every group whose 'transported' flag is False, p.data of every
\* parameter equals its true_params exactly.
C1_FlagFalseExposesTrueParams ==
    \A g \in Groups : ~transported[g] =>
        \A p \in InGroup(g) : params[p].data = params[p].true_params

\* C2: after any step() in which p had a gradient, the call has completed
\* normally and igt_velocity and true_params exist for p, whatever num_steps
\* was when the gradient first arrived.
C2_StateCreatedOnFirstGradient ==
    call = "step" =>
        /\ ~raised
        /\ \A p \in Params : params[p].grad # None => HasState(params[p])

\* C3: eval() on a group whose flag is True completes normally, sets p.data of
\* every parameter of the group to its true value (also without state, also at
\* num_steps = 0) and leaves the flag False.
C3_EvalExposesTrueParams ==
    [][call' = "eval" =>
          /\ ~raised'
          /\ \A g \in Groups : transported[g] =>
                /\ ~transported'[g]
                /\ \A p \in InGroup(g) : params'[p].data = TrueValue(params[p])]_vars

\* C4: while step() has never been called, train() and then eval() complete
\* without error and leave every p.data unchanged.
C4_TrainEvalBeforeAnyStep ==
    [][/\ (step_calls = 0 /\ call' = "train") =>
            (~raised' /\ \A p \in Params : params'[p].data = params[p].data)
       /\ (step_calls = 0 /\ call = "train" /\ call' = "eval") =>
            (~raised' /\ \A p \in Params : params'[p].data = params[p].data)]_vars

\* the gradient a velocity update absorbed, recovered from igt_velocity before
\* and after it: v' = v + d at num_steps 0, v' = gamma v + (1 - gamma) d later
FedGradient(c, n, before, after) ==
    IF n = 0
    THEN RSub(after.igt_velocity,
              IF before.igt_velocity = None THEN Zero ELSE before.igt_velocity)
    ELSE RDiv(RSub(after.igt_velocity, RMul(Gamma(n, c.delta), before.igt_velocity)),
              RSub(One, Gamma(n, c.delta)))

\* C5 (as claimed): for every processed parameter and every num_steps, the
\* gradient fed into the velocity update is g + weight_decay * true_params,
\* true_params being the stored buffer before this step's advance.
C5_DecayFromTrueParams ==
    [][call' = "step" =>
          \A p \in processed' :
              FedGradient(defaults, num_steps[GroupOf(p)], params[p], params'[p])
                = AddScaled(params[p].grad, defaults.weight_decay, TrueValue(params[p]))]_vars

\* C5 (amended): for every processed parameter and every num_steps, the
\* gradient fed into the velocity update is g + weight_decay * p.data, g being
\* the content of p.grad and p.data the exposed value when step() is called.
C5_DecayFromExposedValue ==
    [][call' = "step" =>
          \A p \in processed' :
              FedGradient(defaults, num_steps[GroupOf(p)], params[p], params'[p])
                = AddScaled(params[p].grad, defaults.weight_decay, params[p].data)]_vars

\* a step with weight decay processed, at num_steps >= 1, a parameter whose
\* exposed value is not its true value
C5_Witness ==
    /\ call = "step"
    /\ defaults.weight_decay # Zero
    /\ \E p \in processed :
          /\ num_steps[GroupOf(p)] >= 2
          /\ params[p].data # params[p].true_params

\* C6: step() never modifies p.grad of any parameter.
C6_StepKeepsGradients ==
    [][call' = "step" => \A p \in Params : params'[p].grad = params[p].grad]_vars

\* C7: a step() in which p has no gradient leaves p's buffers, state and
\* p.data unchanged, and the num_steps of p's group advances by one.
C7_NoGradientNoChange ==
    [][call' = "step" =>
          \A p \in Params : params[p].grad = None =>
              /\ params'[p] = params[p]
              /\ num_steps'[GroupOf(p)] = num_steps[GroupOf(p)] + 1]_vars

\* C8: every step() adds exactly 1 to every group's num_steps, train() and
\* eval() never change it, and after k step() calls every num_steps is k.
C8_NumStepsCountsStepCalls ==
    /\ [][/\ call' = "step" => \A g \in Groups : num_steps'[g] = num_steps[g] + 1
          /\ call' \in {"train", "eval"} => num_steps' = num_steps]_vars
    /\ [](\A g \in Groups : num_steps[g] = step_calls)

\* flags, counters, all buffers and exposed values, and the call's outcome
OptimizerState(r) == <<r.num_steps, r.transported, r.params, r.raised>>

\* C9: from every reachable state, eval() twice gives the state eval() once
\* gives, and train() twice gives the state train() once gives.
C9_ModeCallsIdempotent ==
    /\ \E a \in {EvalResult(num_steps, transported, params)} :
          OptimizerState(EvalResult(a.num_steps, a.transported, a.params)) = OptimizerState(a)
    /\ \E a \in {TrainResult(defaults, num_steps, transported, params)} :
          OptimizerState(TrainResult(defaults, a.num_steps, a.transported, a.params))
            = OptimizerState(a)

\* an eval() has just cleared every flag, after at least two steps
C9_Witness ==
    /\ call = "eval"
    /\ ~raised
    /\ step_calls >= 2
    /\ processed = Params
    /\ \A g \in Groups : ~transported[g]

\* C10: train() and eval() leave igt_velocity, momentum_velocity, true_params
\* and num_steps of every parameter and group unchanged.
C10_ModeCallsKeepBuffers ==
    [][call' \in {"train", "eval"} =>
          /\ num_steps' = num_steps
          /\ \A p \in Params : Buffers(params'[p]) = Buffers(params[p])]_vars

\* a train() has just re-projected a parameter with a nonzero velocity
C10_Witness ==
    /\ call = "train"
    /\ ~raised
    /\ \E p \in processed :
          /\ HasState(params[p])
          /\ params[p].igt_velocity # Zero
          /\ params[p].data # params[p].true_params

\* a step() call, with or without a closure
IsStepCall(c) == c \in {"step", "step_closure"}

\* the update direction written out from the buffers: igt_velocity without
\* momentum, igt_velocity + momentum * momentum_velocity under Nesterov,
\* momentum_velocity under heavyball
ClaimedD(c, ps) ==
    IF c.momentum = Zero THEN ps.igt_velocity
    ELSE IF c.nesterov
         THEN RAdd(ps.igt_velocity, RMul(c.momentum, ps.momentum_velocity))
         ELSE ps.momentum_velocity

\* gamma / (1 - gamma) with gamma = k / (k + delta)
ClaimedTransport(k, delta) ==
    RDiv(RDiv(R(k), RAdd(R(k), delta)), RSub(One, RDiv(R(k), RAdd(R(k), delta))))

\* C11: train() on a group with transported False and num_steps > 0 sets every
\* p.data to true_params - lr * transport * D, transport from the current
\* num_steps, and sets the flag; at num_steps 0 it leaves every p.data as it is.
C11_TrainProjectsFromTrueParams ==
    [][call' = "train" =>
          \A g \in Groups :
              /\ (~transported[g] /\ num_steps[g] > 0) =>
                    /\ transported'[g]
                    /\ \A p \in InGroup(g) :
                          params'[p].data =
                              RSub(params[p].true_params,
                                   RMul(RMul(defaults.lr,
                                             ClaimedTransport(num_steps[g], defaults.delta)),
                                        ClaimedD(defaults, params[p])))
              /\ num_steps[g] = 0 =>
                    \A p \in InGroup(g) : params'[p].data = params[p].data]_vars

\* a train() has just re-projected the parameters of a group at num_steps >= 2
C11_Witness ==
    /\ call = "train"
    /\ ~raised
    /\ \E g \in Groups :
          /\ num_steps[g] >= 2
          /\ InGroup(g) \subseteq processed
          /\ \E p \in InGroup(g) : params[p].data # params[p].true_params

\* C12: for every parameter a step() processes, with the velocities as updated
\* in the call, true_params decreases by lr * D and p.data becomes the new
\* true_params - lr * future_transport * D, future_transport from num_steps + 1.
C12_StepAdvancesAndProjects ==
    [][IsStepCall(call') =>
          \A p \in processed' :
              /\ params'[p].true_params =
                    RSub(TrueValue(params[p]),
                         RMul(defaults.lr, ClaimedD(defaults, params'[p])))
              /\ params'[p].data =
                    RSub(params'[p].true_params,
                         RMul(RMul(defaults.lr,
                                   ClaimedTransport(num_steps[GroupOf(p)] + 1, defaults.delta)),
                              ClaimedD(defaults, params'[p])))]_vars

\* a step() at num_steps >= 1 has just processed a parameter under momentum
C12_Witness ==
    /\ IsStepCall(call)
    /\ defaults.momentum # Zero
    /\ \E p \in processed :
          /\ num_steps[GroupOf(p)] >= 2
          /\ params[p].momentum_velocity # params[p].igt_velocity

\* C13: with momentum = 0 and weight_decay = 0, after the first step() on a
\* parameter with value p0 and gradient g0: igt_velocity = g0, true_params =
\* p0 - lr g0, p.data = p0 - lr g0 - lr future_transport(0) g0, and
\* future_transport(0) = 1 for delta = 1 (lr = 0.1, g0 = 2, p0 = 1: 0.8 and 0.6).
C13_FirstStepValues ==
    (/\ IsStepCall(call)
     /\ step_calls = 1
     /\ defaults.momentum = Zero
     /\ defaults.weight_decay = Zero) =>
        \A p \in processed :
            LET g0 == params[p].grad
                p0 == InitData[p]
                lr == defaults.lr
                ft0 == ClaimedTransport(1, defaults.delta)
            IN  /\ params[p].igt_velocity = g0
                /\ params[p].true_params = RSub(p0, RMul(lr, g0))
                /\ params[p].data = RSub(RSub(p0, RMul(lr, g0)), RMul(RMul(lr, ft0), g0))
                /\ defaults.delta = One => ft0 = One
                /\ (lr = <<1, 10>> /\ g0 = R(2) /\ p0 = R(1) /\ defaults.delta = One) =>
                       /\ params[p].true_params = <<4, 5>>
                       /\ params[p].data = <<3, 5>>

\* the first step() has just processed p0 = 1 with g0 = 2 at lr = 0.1, delta = 1
C13_Witness ==
    /\ IsStepCall(call)
    /\ step_calls = 1
    /\ defaults.momentum = Zero
    /\ defaults.weight_decay = Zero
    /\ defaults.lr = <<1, 10>>
    /\ 1 \in processed
    /\ params[1].grad = R(2)

\* C17: step() never writes the 'transported' flag of any group, although it
\* rewrites p.data of the parameters it processes in transported form.
C17_StepKeepsFlag ==
    [][IsStepCall(call') => transported' = transported]_vars

\* a step() has just rewritten, in transported form, a parameter of a group
\* whose flag is False
C17_Witness ==
    /\ IsStepCall(call)
    /\ \E p \in processed :
          /\ ~transported[GroupOf(p)]
          /\ params[p].data # params[p].true_params

\* C19: right after a step() in which every parameter of a group had a
\* gradient, each having had one in the group's first step too, eval() and
\* then train() bring every p.data of the group back to the value step() left
\* and leave the flag True.
C19_EvalTrainRestoresStepView ==
    \A g \in Groups :
        (/\ IsStepCall(call)
         /\ \A p \in InGroup(g) : params[p].grad # None /\ HasState(params[p])) =>
            \E e \in {EvalResult(num_steps, transported, params)} :
            \E t \in {TrainResult(defaults, e.num_steps, e.transported, e.params)} :
                /\ t.transported[g]
                /\ \A p \in InGroup(g) : t.params[p].data = params[p].data

\* a step() at num_steps >= 1 has just processed both parameters of group 1,
\* leaving them away from their true values
C19_Witness ==
    /\ IsStepCall(call)
    /\ ~raised
    /\ num_steps[1] >= 2
    /\ InGroup(1) \subseteq processed
    /\ \A p \in InGroup(1) : params[p].data # params[p].true_params

\* C20: in every reachable state, also after calls that raised, a group with
\* a parameter and with flag False has num_steps >= 1 and igt_velocity and
\* true_params for every parameter (momentum_velocity too when momentum # 0);
\* hence train() never raises.
C20_FlagFalseMeansStateExists ==
    /\ \A g \in Groups : (InGroup(g) # {} /\ ~transported[g]) =>
          /\ num_steps[g] >= 1
          /\ \A p \in InGroup(g) :
                /\ HasState(params[p])
                /\ defaults.momentum # Zero => params[p].momentum_velocity # None
    /\ ~TrainResult(defaults, num_steps, transported, params).raised
    /\ call = "train" => ~raised

\* a train() has just returned on a group whose flag an earlier eval() cleared
\* while another group's eval() raised
C20_Witness ==
    /\ call = "train"
    /\ processed # {}
    /\ \E p \in Params : ~HasState(params[p])

\* C14: a closure given to step() is invoked exactly once per call, before any
\* gradient is read and before any state or parameter is modified (the
\* gradients the update consumes are the ones the closure left, and the loss
\* is the one of the parameters as they were before the call), and a step()
\* that returns returns the closure's result; without a closure it returns None.
C14_ClosureRunsOnceFirst ==
    [][/\ call' = "step_closure" =>
            /\ closure_calls' = 1
            /\ ~raised' => loss' = ClosureLoss(params)
            /\ \A p \in processed' :
                  FedGradient(defaults, num_steps[GroupOf(p)], params[p], params'[p])
                    = AddScaled(LossGrad[p], defaults.weight_decay, params[p].data)
       /\ call' = "step" => (closure_calls' = 0 /\ loss' = None)]_vars

\* a step(closure) has returned the loss after updating every parameter, at a
\* step later than the first
C14_Witness ==
    /\ call = "step_closure"
    /\ ~raised
    /\ closure_calls = 1
    /\ loss # None
    /\ processed = Params
    /\ step_calls >= 2

\* C15: constructing with weight_decay < 0, or delta <= 0, or nesterov=True
\* together with momentum <= 0 or dampening != 0, raises and constructs
\* nothing: no group, counter, flag or per-parameter state is registered.
C15_InvalidConfigConstructsNothing ==
    (/\ call # "none"
     /\ \/ defaults.weight_decay[1] < 0
        \/ defaults.delta[1] <= 0
        \/ /\ defaults.nesterov
           /\ (defaults.momentum[1] <= 0 \/ defaults.dampening # Zero)) =>
        /\ call = "init"
        /\ raised
        /\ num_steps = <<>>
        /\ transported = <<>>
        /\ \A p \in Params :
              /\ params[p].igt_velocity = None
              /\ params[p].true_params = None
              /\ params[p].momentum_velocity = None

\* the constructor has just raised for nesterov=True with dampening 1/2
C15_Witness ==
    /\ call = "init"
    /\ raised
    /\ defaults.nesterov
    /\ defaults.momentum[1] > 0
    /\ defaults.dampening # Zero

\* the optimizer of the same settings with nesterov=False
Heavyball(c) == [c EXCEPT !.nesterov = FALSE]

\* C16: with momentum > 0 and dampening = 0, heavyball and Nesterov apply the
\* same momentum_velocity recurrence (the first step adds igt_velocity to zero,
\* a later one takes momentum * momentum_velocity + igt_velocity, whatever the
\* flag), and from the same parameter values and gradients the first step of
\* the Nesterov optimizer leaves true_params at the heavyball optimizer's
\* true_params minus lr * momentum * momentum_velocity, a different value
\* when the gradient is nonzero.
C16_NesterovVersusHeavyball ==
    [][(/\ IsStepCall(call')
        /\ defaults.momentum[1] > 0
        /\ defaults.dampening = Zero) =>
          \E hb \in {StepResult(Heavyball(defaults), num_steps,
                                IF call' = "step_closure" THEN ClosureGrads(params)
                                ELSE params)} :
            /\ hb.raised = raised'
            /\ hb.processed = processed'
            /\ \A p \in processed' :
                 /\ params'[p].momentum_velocity = hb.params[p].momentum_velocity
                 /\ params'[p].momentum_velocity =
                      IF num_steps[GroupOf(p)] = 0 THEN params'[p].igt_velocity
                      ELSE AddScaled(RMul(params[p].momentum_velocity, defaults.momentum),
                                     One, params'[p].igt_velocity)
                 /\ (defaults.nesterov /\ num_steps[GroupOf(p)] = 0) =>
                      /\ params'[p].true_params =
                           AddScaled(hb.params[p].true_params,
                                     RNeg(RMul(defaults.lr, defaults.momentum)),
                                     params'[p].momentum_velocity)
                      /\ params'[p].grad # Zero =>
                           params'[p].true_params # hb.params[p].true_params]_vars

\* a Nesterov optimizer has just taken the first step of a group on a nonzero
\* gradient
C16_Witness ==
    /\ IsStepCall(call)
    /\ defaults.nesterov
    /\ defaults.momentum[1] > 0
    /\ defaults.dampening = Zero
    /\ \E p \in processed :
          /\ num_steps[GroupOf(p)] = 1
          /\ params[p].grad # Zero
          /\ params[p].momentum_velocity # Zero

\* p.data of every parameter that has state set to its true_params: the
\* copy of line 212, made for each such parameter
ExposeTrue(ps) ==
    [p \in Params |->
        IF ps[p].true_params = None THEN ps[p]
        ELSE [ps[p] EXCEPT !.data = ps[p].true_params]]

\* the parameters as mode calls made before a step() leave them: after eval()
\* and after train() (a call that raises leaves what it wrote), and with the
\* true value exposed wherever there is one
ModeVariants(c, ns, tr, ps) ==
    {EvalResult(ns, tr, ps).params, TrainResult(c, ns, tr, ps).params,
     ExposeTrue(ps)} \ {ps}

\* the step() just taken leaves the buffers, counters and outcome that the
\* same step(), fed the same gradients, leaves when mode calls precede it;
\* a parameter without state still holds its initial value. (Two runs with
\* the same buffers, counters and gradients then have the same ExposeTrue
\* variant, hence the same buffers after the step.)
SameBuffersAfterModeCalls ==
    /\ \A p \in Params : ~HasState(params[p]) => params[p].data = InitData[p]
    /\ \A ps \in ModeVariants(defaults, num_steps, transported, params) :
          \E r \in {StepResult(defaults, num_steps,
                               IF call' = "step_closure" THEN ClosureGrads(ps) ELSE ps)} :
              /\ r.raised = raised'
              /\ r.num_steps = num_steps'
              /\ r.processed = processed'
              /\ \A p \in Params : Buffers(r.params[p]) = Buffers(params'[p])

\* C18 (as claimed): for every configuration, weight_decay != 0 included, the
\* true_params, igt_velocity and momentum_velocity a step() leaves do not
\* depend on the train()/eval() calls made before it.
C18_BuffersIgnoreModeCalls ==
    [][IsStepCall(call') => SameBuffersAfterModeCalls]_vars

\* C18 (amended): with weight_decay = 0, the true_params, igt_velocity and
\* momentum_velocity a step() leaves do not depend on the train()/eval()
\* calls made before it.
C18_BuffersIgnoreModeCallsNoDecay ==
    [][(IsStepCall(call') /\ defaults.weight_decay = Zero) =>
          SameBuffersAfterModeCalls]_vars

\* without weight decay, a step() at num_steps >= 1 has just updated a
\* parameter of a group that an earlier eval() left with flag False
C18_Witness ==
    /\ IsStepCall(call)
    /\ defaults.weight_decay = Zero
    /\ \E p \in processed :
          /\ num_steps[GroupOf(p)] >= 2
          /\ ~transported[GroupOf(p)]
          /\ params[p].data # params[p].true_params

====
